---- MODULE Spec2Model ----
(***************************************************************************)
(* Model of restful_soil_sensor.py: a MicroPython HTTP endpoint that joins *)
(* a WiFi network, opens one listening socket and answers every connection *)
(* with a JSON document describing one soil-sensor reading.                *)
(*                                                                         *)
(* The program is single threaded.  pc is the position of that one thread; *)
(* the only other actor is the environment (clients arriving, the values   *)
(* the WLAN status, the ADC and the socket calls produce).                 *)
(***************************************************************************)
EXTENDS Integers, Sequences, FiniteSets, TLC

(***************************************************************************)
(* Program constants                                                       *)
(***************************************************************************)
MAX_WIFI_CONNECTION_ATTEMPTS == 30

\* MAX_DRYNESS_PERCENTAGE = 60.0, kept in tenths of a percent
MAX_DRYNESS_PERCENTAGE == 600

\* s.listen(1)
BACKLOG == 1

\* the divisor of the percentage conversion
U16_MAX == 65535

\* wlan.status() value tested by "!= 3" and ">= 3"
STAT_GOT_IP == 3

(***************************************************************************)
(* Bounds of the model                                                     *)
(***************************************************************************)
\* number of clients that ever connect
MaxClients == 3

\* longest plant name (in characters) tried by the framing specification
MaxNameLen == 2

(***************************************************************************)
(* Inputs the environment can produce                                      *)
(***************************************************************************)
\* values wlan.status() may return: failures (< 0), still connecting
\* (0..2), joined (3) and a value above 3
StatusValues == {-2, -1, 0, 1, 2, 3, 4}

\* raw ADC samples used while serving: both ends of the u16 range, the
\* values named in the module docstring, and readings around the threshold
RawSamples == {0, 20000, 39321, 39350, 39354, 50000, 65535}

Clients == 1 .. MaxClients

\* what a client may write on its connection
Requests == {"GET / HTTP/1.1", "POST /water HTTP/1.1"}

\* what client c writes: the clients alternate between the two requests
RequestOf(c) == IF c % 2 = 1 THEN "GET / HTTP/1.1" ELSE "POST /water HTTP/1.1"

\* the sample recorded for a connection that was sent nothing
NoSample == -1

\* characters of the plant names tried by the framing specification:
\* A, the double quote, e acute (2 bytes), the euro sign (3 bytes) and an
\* emoji outside the basic plane (4 bytes)
NameChars == {65, 34, 233, 8364, 128512}

\* the plant names tried: every string of at most MaxNameLen characters
Names == UNION {[1 .. n -> NameChars] : n \in 0 .. MaxNameLen}

\* value of a local variable that has not been assigned
Unbound == 0

VARIABLES
    pc,            \* position of the program
    crashCause,    \* which call raised out of main ("none" while running)
    \* --- connect_to_wifi
    max_wait,      \* the local max_wait
    statusCalls,   \* number of wlan.status() calls made
    iterations,    \* number of times the loop body was entered
    sleeps,        \* number of time.sleep(1) calls (and wait messages)
    allConnecting, \* every status read so far was in 0..2
    loopJoined,    \* some status read inside the loop returned 3
    failSeen,      \* some status read returned < 0 or > 3
    exhausted,     \* the loop ended because max_wait reached 0
    finalStatus,   \* <<the value read by line 61>>, <<>> before
    lastStatus,    \* <<the value of the latest status read>>, <<>> before
    firstReads,    \* the values of the first two status reads
    broke,         \* the loop was left by the break of line 55
    ip_address,    \* main's ip_address ("none" before the return)
    connectCalls,  \* number of times connect_to_wifi was called
    \* --- make_socket
    listener,      \* "none", "created", "bound", "listening"
    socketCalls,   \* number of times make_socket was called
    \* --- the network
    backlog,       \* connections waiting in the listen queue
    nextClient,    \* id of the next client to arrive
    connState,     \* per client: "new", "queued", "open", "closed"
    \* --- main_loop
    calls,         \* number of main_loop calls started
    client,        \* the local client (Unbound before accept returns)
    raw,           \* the sample DATA_PIN.read_u16() returned
    dryness,       \* the local dryness, in tenths of a percent
    is_too_dry,    \* the local is_too_dry
    haveReading,   \* get_soil_data has returned in this call
    err,           \* the step that raised in this call, "none" otherwise
    accepted,      \* clients in the order accept() returned them
    closeCalls,    \* per client: number of close() calls
    sendCalls,     \* per client: number of send() calls that succeeded
    paused,        \* per client: the post-send sleep completed
    failAt,        \* per client: the step that raised ("none")
    logged,        \* per client: the error printed by line 126 ("none")
    result,        \* the local result: the JSON text, as code points
    response,      \* the local response: the encoded bytes
    sentBytes,     \* per client: the bytes handed to send()
    request,       \* what the accepted client has written ("none")
    prevReq,       \* the request of the latest ended call that sent
    sentRaw,       \* per client: the sample its response was built from
    events,        \* per client: the calls made for it, in order
    acceptedThisCall, \* accept() has returned in the current call
    \* --- configuration and platform
    plant_name,    \* PLANT_NAME, as code points
    ensure_ascii,  \* json.dumps escapes non-ASCII (CPython) or not
    dict_ordered   \* a dict keeps insertion order (CPython) or not

wifiVars == <<max_wait, statusCalls, iterations, sleeps, allConnecting,
              loopJoined, failSeen, exhausted, finalStatus, lastStatus,
              firstReads, broke>>

netVars == <<backlog, nextClient, connState>>

histVars == <<request, prevReq, sentRaw, events, acceptedThisCall>>

loopVars == <<calls, client, raw, dryness, is_too_dry, haveReading, err,
              accepted, closeCalls, sendCalls, paused, failAt, logged,
              result, response, sentBytes, histVars>>

cfgVars == <<plant_name, ensure_ascii, dict_ordered>>

vars == <<pc, crashCause, wifiVars, ip_address, connectCalls, listener,
          socketCalls, netVars, loopVars, cfgVars>>

(***************************************************************************)
(* get_soil_data                                                           *)
(***************************************************************************)
\* round(r / 65535 * 100, 1) in tenths of a percent.  Python rounds to the
\* nearest tenth and a tie to the even one; r * 1000 / 65535 is never a tie
\* (2000 * r is even, an odd multiple of 65535 is odd).
\* (RoundTenthsTrunc: the same with the rounding replaced by truncation)
RoundTenthsTrunc(r) == (r * 1000) \div U16_MAX

RoundTenths(r) ==
    LET n   == r * 1000
        q   == n \div U16_MAX
        rem == n % U16_MAX
    IN  IF 2 * rem > U16_MAX THEN q + 1
        ELSE IF 2 * rem < U16_MAX THEN q
        ELSE IF q % 2 = 0 THEN q ELSE q + 1

\* value > threshold
TooDryAt(value, threshold) == value > threshold

\* line 90 with >= in place of >
TooDryGe(value) == value >= MAX_DRYNESS_PERCENTAGE

\* line 90: value > MAX_DRYNESS_PERCENTAGE
TooDry(value) == TooDryAt(value, MAX_DRYNESS_PERCENTAGE)

\* the tuple get_soil_data returns for the sample r
get_soil_data(r) == <<RoundTenths(r), TooDry(RoundTenths(r))>>

(***************************************************************************)
(* Text.  A str is a sequence of code points, bytes a sequence of 0..255.  *)
(***************************************************************************)
\* PLANT_NAME = "Andrew's Yucca Plant"
PLANT_NAME ==
    <<65, 110, 100, 114, 101, 119, 39, 115, 32, 89, 117, 99, 99, 97,
      32, 80, 108, 97, 110, 116>>

\* {"plant": 
KeyPlant ==
    <<123, 34, 112, 108, 97, 110, 116, 34, 58, 32>>

\* , "dryness_percent": 
KeyDryness ==
    <<44, 32, 34, 100, 114, 121, 110, 101, 115, 115, 95, 112, 101,
      114, 99, 101, 110, 116, 34, 58, 32>>

\* , "max_allowable_dryness": 
KeyMax ==
    <<44, 32, 34, 109, 97, 120, 95, 97, 108, 108, 111, 119, 97, 98,
      108, 101, 95, 100, 114, 121, 110, 101, 115, 115, 34, 58, 32>>

\* , "is_plant_too_dry": 
KeyTooDry ==
    <<44, 32, 34, 105, 115, 95, 112, 108, 97, 110, 116, 95, 116, 111,
      111, 95, 100, 114, 121, 34, 58, 32>>

\* true
TxtTrue ==
    <<116, 114, 117, 101>>

\* false
TxtFalse ==
    <<102, 97, 108, 115, 101>>

\* "HTTP/1.1 200 OK\n"
StatusLine ==
    <<72, 84, 84, 80, 47, 49, 46, 49, 32, 50, 48, 48, 32, 79, 75, 10>>

\* "Content-Length: "
ContentLengthName ==
    <<67, 111, 110, 116, 101, 110, 116, 45, 76, 101, 110, 103, 116,
      104, 58, 32>>

\* "Content-Type: application/json\n\n"
ContentTypeLine ==
    <<67, 111, 110, 116, 101, 110, 116, 45, 84, 121, 112, 101, 58, 32,
      97, 112, 112, 108, 105, 99, 97, 116, 105, 111, 110, 47, 106,
      115, 111, 110, 10, 10>>

\* str(n) for n >= 0
RECURSIVE IntStr(_)
IntStr(n) ==
    IF n < 10 THEN <<48 + n>> ELSE IntStr(n \div 10) \o <<48 + (n % 10)>>

\* the text json.dumps writes for a float that is a whole number of tenths
FloatStr(tenths) ==
    IntStr(tenths \div 10) \o <<46>> \o <<48 + (tenths % 10)>>

HexDigit(d) == IF d < 10 THEN 48 + d ELSE 87 + d

\* \uXXXX
UEscape(u) ==
    <<92, 117, HexDigit(u \div 4096), HexDigit((u \div 256) % 16),
      HexDigit((u \div 16) % 16), HexDigit(u % 16)>>

\* what json.dumps writes for one character of a string.  With ascii
\* (CPython's default ensure_ascii=True) a character above 127 becomes
\* \uXXXX, or a surrogate pair; without it (MicroPython) it is written
\* as it is.
EscapeChar(cp, ascii) ==
    IF cp = 34 THEN <<92, 34>>
    ELSE IF cp = 92 THEN <<92, 92>>
    ELSE IF cp = 10 THEN <<92, 110>>
    ELSE IF cp = 13 THEN <<92, 114>>
    ELSE IF cp = 9 THEN <<92, 116>>
    ELSE IF cp < 32 THEN UEscape(cp)
    ELSE IF ascii /\ cp > 127
         THEN IF cp < 65536
                 THEN UEscape(cp)
                 ELSE UEscape(55296 + ((cp - 65536) \div 1024))
                      \o UEscape(56320 + ((cp - 65536) % 1024))
    ELSE <<cp>>

\* the concatenation of the pieces parts[lo], ..., parts[hi]
RECURSIVE Concat(_, _, _)
Concat(parts, lo, hi) ==
    IF lo > hi THEN <<>>
    ELSE IF lo = hi THEN parts[lo]
    ELSE LET mid == (lo + hi) \div 2
         IN  Concat(parts, lo, mid) \o Concat(parts, mid + 1, hi)

EscapeStr(s, ascii) ==
    Concat([i \in 1 .. Len(s) |-> EscapeChar(s[i], ascii)], 1, Len(s))

JsonString(s, ascii) == <<34>> \o EscapeStr(s, ascii) \o <<34>>

\* the key "plant"
NamePlant ==
    <<112, 108, 97, 110, 116>>

\* the key "dryness_percent"
NameDryness ==
    <<100, 114, 121, 110, 101, 115, 115, 95, 112, 101, 114, 99, 101,
      110, 116>>

\* the key "max_allowable_dryness"
NameMax ==
    <<109, 97, 120, 95, 97, 108, 108, 111, 119, 97, 98, 108, 101, 95,
      100, 114, 121, 110, 101, 115, 115>>

\* the key "is_plant_too_dry"
NameTooDry ==
    <<105, 115, 95, 112, 108, 97, 110, 116, 95, 116, 111, 111, 95,
      100, 114, 121>>

\* lines 104-109: the dict literal, as <<key, text of the value>> pairs in
\* the order they are written
DictItems(name, dry, too_dry, ascii) ==
    << <<NamePlant, JsonString(name, ascii)>>,
       <<NameDryness, FloatStr(dry)>>,
       <<NameMax, FloatStr(MAX_DRYNESS_PERCENTAGE)>>,
       <<NameTooDry, IF too_dry THEN TxtTrue ELSE TxtFalse>> >>

\* exclusive or of two numbers of 0 .. 3
Xor2(a, b) == ((a + b) % 2) + 2 * (((a \div 2) + (b \div 2)) % 2)

\* the two low bits of the interpreter's string hash, h = (h * 33) ^ byte
\* from 5381 on: they select the slot of a key in a table of four
RECURSIVE HashLow(_, _)
HashLow(s, h) ==
    IF s = <<>> THEN h
    ELSE HashLow(Tail(s), Xor2((h * 33) % 4, Head(s) % 4))

KeySlot(key) == HashLow(key, 5381 % 4)

\* the hash table after the items i, i + 1, ... have been stored; slot k is
\* table[k] for k > 0 and table[Len(table)] for k = 0
RECURSIVE Fill(_, _, _)
Fill(table, items, i) ==
    IF i > Len(items) THEN table
    ELSE LET n    == Len(table)
             at   == [k \in 0 .. n - 1 |-> table[IF k = 0 THEN n ELSE k]]
             free == LET RECURSIVE Seek(_)
                         Seek(pos) == IF at[pos] = 0 THEN pos
                                      ELSE Seek((pos + 1) % n)
                     IN  Seek(KeySlot(items[i][1]) % n)
         IN  Fill([table EXCEPT ![IF free = 0 THEN n ELSE free] = i],
                  items, i + 1)

\* the order in which the items of a dict of four are iterated: as written
\* when the dict keeps insertion order (CPython), by slot of an open
\* addressing table of four when it does not (MicroPython)
IterOrder(items, ordered) ==
    IF ordered THEN [k \in 1 .. Len(items) |-> k]
    ELSE LET n     == Len(items)
             table == Fill([k \in 1 .. n |-> 0], items, 1)
         IN  [k \in 1 .. n |-> table[IF k = 1 THEN n ELSE k - 1]]

\* json.dumps of a dict: "key": value pairs separated by ", " in braces
json_dumps(name, dry, too_dry, ascii, ordered) ==
    LET items == DictItems(name, dry, too_dry, ascii)
        order == IterOrder(items, ordered)
        piece(k) == (IF k = 1 THEN <<>> ELSE <<44, 32>>)
                    \o JsonString(items[order[k]][1], ascii)
                    \o <<58, 32>> \o items[order[k]][2]
    IN  <<123>>
        \o Concat([k \in 1 .. Len(items) |-> piece(k)], 1, Len(items))
        \o <<125>>

\* the UTF-8 bytes of one code point
Utf8(cp) ==
    IF cp < 128 THEN <<cp>>
    ELSE IF cp < 2048 THEN <<192 + (cp \div 64), 128 + (cp % 64)>>
    ELSE IF cp < 65536
         THEN <<224 + (cp \div 4096), 128 + ((cp \div 64) % 64),
                128 + (cp % 64)>>
    ELSE <<240 + (cp \div 262144), 128 + ((cp \div 4096) % 64),
           128 + ((cp \div 64) % 64), 128 + (cp % 64)>>

\* s.encode("utf-8")
Encode(s) == Concat([i \in 1 .. Len(s) |-> Utf8(s[i])], 1, Len(s))

\* len(result): the number of characters of a str
StrLen(s) == Len(s)

\* the response without the newline that follows the body
BuildResponseNoNewline(res) ==
    Encode(StatusLine \o ContentLengthName \o IntStr(StrLen(res)) \o <<10>>
           \o ContentTypeLine \o res)

\* lines 111-116: the response text, encoded
BuildResponse(res) ==
    Encode(StatusLine \o ContentLengthName \o IntStr(StrLen(res)) \o <<10>>
           \o ContentTypeLine \o res \o <<10>>)

(***************************************************************************)
(* Initial state: the module has been imported, main has not started       *)
(***************************************************************************)
InitWifi ==
    /\ lastStatus = <<>>
    /\ firstReads = <<>>
    /\ broke = FALSE
    /\ max_wait = 0
    /\ statusCalls = 0
    /\ iterations = 0
    /\ sleeps = 0
    /\ allConnecting = TRUE
    /\ loopJoined = FALSE
    /\ failSeen = FALSE
    /\ exhausted = FALSE
    /\ finalStatus = <<>>

InitNet ==
    /\ backlog = <<>>
    /\ nextClient = 1
    /\ connState = [c \in Clients |-> "new"]

InitLoop ==
    /\ calls = 0
    /\ client = Unbound
    /\ dryness = 0
    /\ is_too_dry = FALSE
    /\ haveReading = FALSE
    /\ err = "none"
    /\ accepted = <<>>
    /\ closeCalls = [c \in Clients |-> 0]
    /\ sendCalls = [c \in Clients |-> 0]
    /\ paused = [c \in Clients |-> FALSE]
    /\ failAt = [c \in Clients |-> "none"]
    /\ logged = [c \in Clients |-> "none"]
    /\ result = <<>>
    /\ response = <<>>
    /\ sentBytes = [c \in Clients |-> <<>>]
    /\ request = "none"
    /\ prevReq = "none"
    /\ sentRaw = [c \in Clients |-> NoSample]
    /\ events = [c \in Clients |-> <<>>]
    /\ acceptedThisCall = FALSE

Init ==
    /\ pc = "main"
    /\ crashCause = "none"
    /\ InitWifi
    /\ ip_address = "none"
    /\ connectCalls = 0
    /\ listener = "none"
    /\ socketCalls = 0
    /\ InitNet
    /\ InitLoop
    /\ raw = 0
    /\ plant_name = PLANT_NAME
    /\ ensure_ascii = FALSE
    /\ dict_ordered = FALSE

(***************************************************************************)
(* connect_to_wifi                                                         *)
(***************************************************************************)
IsConnecting(s) == s >= 0 /\ s < STAT_GOT_IP

IsFailure(s) == s < 0 \/ s > STAT_GOT_IP

\* bookkeeping of one wlan.status() call that returned s
NoteStatus(s, inLoop) ==
    /\ statusCalls' = statusCalls + 1
    /\ allConnecting' = (allConnecting /\ IsConnecting(s))
    /\ loopJoined' = (loopJoined \/ (inLoop /\ s = STAT_GOT_IP))
    /\ failSeen' = (failSeen \/ IsFailure(s))
    /\ lastStatus' = <<s>>
    /\ firstReads' = IF Len(firstReads) < 2
                        THEN Append(firstReads, s)
                        ELSE firstReads

\* main calls connect_to_wifi; lines 44-52 up to "max_wait = ..."
WifiBegin ==
    /\ pc = "main"
    /\ UNCHANGED <<lastStatus, firstReads, broke>>
    /\ pc' = "wifi_while"
    /\ connectCalls' = connectCalls + 1
    /\ max_wait' = MAX_WIFI_CONNECTION_ATTEMPTS
    /\ UNCHANGED <<crashCause, statusCalls, iterations, sleeps,
                   allConnecting, loopJoined, failSeen, exhausted,
                   finalStatus, ip_address, listener, socketCalls, netVars,
                   loopVars, cfgVars>>

\* the loop test written as max_wait > 1
WifiWhileOffByOne ==
    /\ pc = "wifi_while"
    /\ UNCHANGED <<lastStatus, firstReads, broke>>
    /\ IF max_wait > 1
          THEN /\ pc' = "wifi_poll1"
               /\ iterations' = iterations + 1
               /\ UNCHANGED exhausted
          ELSE /\ pc' = "wifi_final"
               /\ exhausted' = TRUE
               /\ UNCHANGED iterations
    /\ UNCHANGED <<crashCause, max_wait, statusCalls, sleeps, allConnecting,
                   loopJoined, failSeen, finalStatus, ip_address,
                   connectCalls, listener, socketCalls, netVars, loopVars,
                   cfgVars>>

\* while max_wait > 0:
WifiWhile ==
    /\ pc = "wifi_while"
    /\ UNCHANGED <<lastStatus, firstReads, broke>>
    /\ IF max_wait > 0
          THEN /\ pc' = "wifi_poll1"
               /\ iterations' = iterations + 1
               /\ UNCHANGED exhausted
          ELSE /\ pc' = "wifi_final"
               /\ exhausted' = TRUE
               /\ UNCHANGED iterations
    /\ UNCHANGED <<crashCause, max_wait, statusCalls, sleeps, allConnecting,
                   loopJoined, failSeen, finalStatus, ip_address,
                   connectCalls, listener, socketCalls, netVars, loopVars, cfgVars>>

\* the left operand of line 54: wlan.status() < 0 breaks out of the loop
WifiPoll1 ==
    /\ pc = "wifi_poll1"
    /\ \E s \in StatusValues :
          /\ NoteStatus(s, TRUE)
          /\ pc' = IF s < 0 THEN "wifi_final" ELSE "wifi_poll2"
          /\ broke' = (s < 0)
    /\ UNCHANGED <<crashCause, max_wait, iterations, sleeps, exhausted,
                   finalStatus, ip_address, connectCalls, listener,
                   socketCalls, netVars, loopVars, cfgVars>>

\* the right operand of line 54 written as wlan.status() > 3
WifiPoll2Greater ==
    /\ pc = "wifi_poll2"
    /\ \E s \in StatusValues :
          /\ NoteStatus(s, TRUE)
          /\ pc' = IF s > STAT_GOT_IP THEN "wifi_final" ELSE "wifi_sleep"
          /\ broke' = (s > STAT_GOT_IP)
    /\ UNCHANGED <<crashCause, max_wait, iterations, sleeps, exhausted,
                   finalStatus, ip_address, connectCalls, listener,
                   socketCalls, netVars, loopVars, cfgVars>>

\* the right operand of line 54, a second wlan.status() call: >= 3 breaks
WifiPoll2 ==
    /\ pc = "wifi_poll2"
    /\ \E s \in StatusValues :
          /\ NoteStatus(s, TRUE)
          /\ pc' = IF s >= STAT_GOT_IP THEN "wifi_final" ELSE "wifi_sleep"
          /\ broke' = (s >= STAT_GOT_IP)
    /\ UNCHANGED <<crashCause, max_wait, iterations, sleeps, exhausted,
                   finalStatus, ip_address, connectCalls, listener,
                   socketCalls, netVars, loopVars, cfgVars>>

\* lines 57-59: max_wait -= 1, the wait message, time.sleep(1)
WifiSleep ==
    /\ pc = "wifi_sleep"
    /\ UNCHANGED <<lastStatus, firstReads, broke>>
    /\ max_wait' = max_wait - 1
    /\ sleeps' = sleeps + 1
    /\ pc' = "wifi_while"
    /\ UNCHANGED <<crashCause, statusCalls, iterations, allConnecting,
                   loopJoined, failSeen, exhausted, finalStatus, ip_address,
                   connectCalls, listener, socketCalls, netVars, loopVars, cfgVars>>

\* the test of line 61 written as wlan.status() < 3
WifiFinalLessThan ==
    /\ pc = "wifi_final"
    /\ UNCHANGED broke
    /\ \E s \in StatusValues :
          /\ NoteStatus(s, FALSE)
          /\ finalStatus' = <<s>>
          /\ IF s < STAT_GOT_IP
                THEN /\ pc' = "crashed"
                     /\ crashCause' = "connect_to_wifi"
                ELSE /\ pc' = "wifi_return"
                     /\ UNCHANGED crashCause
    /\ UNCHANGED <<max_wait, iterations, sleeps, exhausted, ip_address,
                   connectCalls, listener, socketCalls, netVars, loopVars,
                   cfgVars>>

\* lines 61-62: a third wlan.status() call decides between raise and return
WifiFinal ==
    /\ pc = "wifi_final"
    /\ UNCHANGED broke
    /\ \E s \in StatusValues :
          /\ NoteStatus(s, FALSE)
          /\ finalStatus' = <<s>>
          /\ IF s # STAT_GOT_IP
                THEN /\ pc' = "crashed"
                     /\ crashCause' = "connect_to_wifi"
                ELSE /\ pc' = "wifi_return"
                     /\ UNCHANGED crashCause
    /\ UNCHANGED <<max_wait, iterations, sleeps, exhausted, ip_address,
                   connectCalls, listener, socketCalls, netVars, loopVars, cfgVars>>

\* lines 64-69 and the assignment of line 132
WifiReturn ==
    /\ pc = "wifi_return"
    /\ ip_address' = "assigned"
    /\ pc' = "wifi_done"
    /\ UNCHANGED <<crashCause, wifiVars, connectCalls, listener,
                   socketCalls, netVars, loopVars, cfgVars>>

(***************************************************************************)
(* make_socket                                                             *)
(***************************************************************************)
SocketOutcomes == {"ok", "getaddrinfo", "socket", "bind", "listen"}

\* how far make_socket got when the step named by outcome raised
ListenerAfter(outcome) ==
    CASE outcome = "getaddrinfo" -> "none"
      [] outcome = "socket"      -> "none"
      [] outcome = "bind"        -> "created"
      [] outcome = "listen"      -> "bound"
      [] OTHER                   -> "listening"

\* main going on to serve although make_socket raised
MakeSocketContinue ==
    /\ pc = "wifi_done"
    /\ lastStatus' = <<>>
    /\ firstReads' = <<>>
    /\ broke' = FALSE
    /\ socketCalls' = socketCalls + 1
    /\ \E outcome \in SocketOutcomes :
          /\ listener' = ListenerAfter(outcome)
          /\ pc' = "main_while"
          /\ UNCHANGED crashCause
    /\ max_wait' = 0
    /\ statusCalls' = 0
    /\ iterations' = 0
    /\ sleeps' = 0
    /\ allConnecting' = TRUE
    /\ loopJoined' = FALSE
    /\ failSeen' = FALSE
    /\ exhausted' = FALSE
    /\ UNCHANGED <<finalStatus, ip_address, connectCalls, netVars, loopVars,
                   cfgVars>>

\* line 133: make_socket(LISTENING_PORT), lines 73-77.  The frame of
\* connect_to_wifi is gone: its local and the counters observing that call
\* are cleared.
MakeSocket ==
    /\ pc = "wifi_done"
    /\ lastStatus' = <<>>
    /\ firstReads' = <<>>
    /\ broke' = FALSE
    /\ socketCalls' = socketCalls + 1
    /\ \E outcome \in SocketOutcomes :
          /\ listener' = ListenerAfter(outcome)
          /\ IF outcome = "ok"
                THEN /\ pc' = "main_while"
                     /\ UNCHANGED crashCause
                ELSE /\ pc' = "crashed"
                     /\ crashCause' = "make_socket"
    /\ max_wait' = 0
    /\ statusCalls' = 0
    /\ iterations' = 0
    /\ sleeps' = 0
    /\ allConnecting' = TRUE
    /\ loopJoined' = FALSE
    /\ failSeen' = FALSE
    /\ exhausted' = FALSE
    /\ UNCHANGED <<finalStatus, ip_address, connectCalls, netVars, loopVars,
                   cfgVars>>

(***************************************************************************)
(* The environment: a client connects and waits in the listen queue        *)
(***************************************************************************)
Arrive ==
    /\ listener = "listening"
    /\ pc # "crashed"
    /\ nextClient <= MaxClients
    /\ Len(backlog) < BACKLOG
    /\ backlog' = Append(backlog, nextClient)
    /\ connState' = [connState EXCEPT ![nextClient] = "queued"]
    /\ nextClient' = nextClient + 1
    /\ UNCHANGED <<pc, crashCause, wifiVars, ip_address, connectCalls,
                   listener, socketCalls, loopVars, cfgVars>>

(***************************************************************************)
(* main_loop                                                               *)
(***************************************************************************)
\* The steps of the try block that may raise are the ones the handler is
\* written for: accept, the unpacking of addr, the sensor read, json.dumps,
\* send and the sleep; each call has at most one of them raise.  close()
\* returns normally (the socket close of the platform reports no error), and
\* a send() that returns has been handed the whole response.

\* the statement named by step raises inside the try block
Raise(step) ==
    /\ err' = step
    /\ pc' = "except"
    /\ failAt' = IF client # Unbound
                    THEN [failAt EXCEPT ![client] = step]
                    ELSE failAt

\* client kept from one call to the next, as a global would be
CallMainLoopKeepsClient ==
    /\ pc = "main_while"
    /\ pc' = "accept"
    /\ calls' = calls + 1
    /\ UNCHANGED client
    /\ raw' = 0
    /\ dryness' = 0
    /\ is_too_dry' = FALSE
    /\ haveReading' = FALSE
    /\ err' = "none"
    /\ result' = <<>>
    /\ response' = <<>>
    /\ UNCHANGED <<crashCause, wifiVars, ip_address, connectCalls, listener,
                   socketCalls, netVars, accepted, closeCalls, sendCalls,
                   paused, failAt, logged, sentBytes, cfgVars>>
    /\ request' = "none"
    /\ acceptedThisCall' = FALSE
    /\ UNCHANGED <<prevReq, sentRaw, events>>

\* lines 136-137: main calls main_loop, whose locals start unassigned
CallMainLoop ==
    /\ pc = "main_while"
    /\ pc' = "accept"
    /\ calls' = calls + 1
    /\ client' = Unbound
    /\ raw' = 0
    /\ dryness' = 0
    /\ is_too_dry' = FALSE
    /\ haveReading' = FALSE
    /\ err' = "none"
    /\ result' = <<>>
    /\ response' = <<>>
    /\ UNCHANGED <<crashCause, wifiVars, ip_address, connectCalls, listener,
                   socketCalls, netVars, accepted, closeCalls, sendCalls,
                   paused, failAt, logged, sentBytes, cfgVars>>
    /\ request' = "none"
    /\ acceptedThisCall' = FALSE
    /\ UNCHANGED <<prevReq, sentRaw, events>>

\* line 98: listener.accept() returns the head of the queue, or raises
Accept ==
    /\ pc = "accept"
    /\ \/ /\ backlog # <<>>
          /\ client' = Head(backlog)
          /\ backlog' = Tail(backlog)
          /\ connState' = [connState EXCEPT ![Head(backlog)] = "open"]
          /\ accepted' = Append(accepted, Head(backlog))
          /\ pc' = "unpack"
          /\ UNCHANGED <<err, failAt>>
       \/ /\ UNCHANGED <<client, backlog, connState, accepted>>
          /\ Raise("accept")
    /\ UNCHANGED <<crashCause, wifiVars, ip_address, connectCalls, listener,
                   socketCalls, nextClient, calls, raw, dryness, is_too_dry,
                   haveReading, closeCalls, sendCalls, paused, logged,
                   result, response, sentBytes, cfgVars>>
    /\ request' = IF pc' = "unpack" THEN RequestOf(client') ELSE request
    /\ acceptedThisCall' = (pc' = "unpack")
    /\ events' = IF pc' = "unpack"
                    THEN [events EXCEPT ![client'] = <<"accept">>]
                    ELSE events
    /\ UNCHANGED <<prevReq, sentRaw>>

\* lines 99-100: request_ip, _ = addr
Unpack ==
    /\ pc = "unpack"
    /\ \/ /\ pc' = "read"
          /\ UNCHANGED <<err, failAt>>
       \/ Raise("unpack")
    /\ UNCHANGED <<crashCause, wifiVars, ip_address, connectCalls, listener,
                   socketCalls, netVars, calls, client, raw, dryness,
                   is_too_dry, haveReading, accepted, closeCalls, sendCalls,
                   paused, logged, result, response, sentBytes, cfgVars>>
    /\ UNCHANGED histVars

\* line 102: dryness, is_too_dry = get_soil_data()
ReadSensor ==
    /\ pc = "read"
    /\ \/ \E r \in RawSamples :
             /\ raw' = r
             /\ dryness' = get_soil_data(r)[1]
             /\ is_too_dry' = get_soil_data(r)[2]
             /\ haveReading' = TRUE
             /\ pc' = "dumps"
             /\ UNCHANGED <<err, failAt>>
       \/ /\ Raise("read")
          /\ UNCHANGED <<raw, dryness, is_too_dry, haveReading>>
    /\ UNCHANGED <<crashCause, wifiVars, ip_address, connectCalls, listener,
                   socketCalls, netVars, calls, client, accepted, closeCalls,
                   sendCalls, paused, logged, result, response, sentBytes,
                   cfgVars>>
    /\ events' = IF pc' = "dumps"
                    THEN [events EXCEPT ![client] = Append(@, "read")]
                    ELSE events
    /\ UNCHANGED <<request, prevReq, sentRaw, acceptedThisCall>>

\* the body made to depend on what the client wrote
DumpsByRequest ==
    /\ pc = "dumps"
    /\ \/ /\ result' = IF request = "GET / HTTP/1.1"
                       THEN json_dumps(plant_name, dryness, is_too_dry,
                                       ensure_ascii, dict_ordered)
                       ELSE <<123, 125>>
          /\ response' = BuildResponse(result')
          /\ pc' = "send"
          /\ UNCHANGED <<err, failAt>>
       \/ /\ Raise("dumps")
          /\ UNCHANGED <<result, response>>
    /\ UNCHANGED <<crashCause, wifiVars, ip_address, connectCalls, listener,
                   socketCalls, netVars, calls, client, raw, dryness,
                   is_too_dry, haveReading, accepted, closeCalls, sendCalls,
                   paused, logged, sentBytes, cfgVars>>
    /\ UNCHANGED histVars

\* lines 104-116: result = json.dumps(...), response = (...).encode("utf-8")
Dumps ==
    /\ pc = "dumps"
    /\ \/ /\ result' = json_dumps(plant_name, dryness, is_too_dry,
                                  ensure_ascii, dict_ordered)
          /\ response' = BuildResponse(result')
          /\ pc' = "send"
          /\ UNCHANGED <<err, failAt>>
       \/ /\ Raise("dumps")
          /\ UNCHANGED <<result, response>>
    /\ UNCHANGED <<crashCause, wifiVars, ip_address, connectCalls, listener,
                   socketCalls, netVars, calls, client, raw, dryness,
                   is_too_dry, haveReading, accepted, closeCalls, sendCalls,
                   paused, logged, sentBytes, cfgVars>>
    /\ UNCHANGED histVars

\* lines 118-120: client.send(response) and the log line
Send ==
    /\ pc = "send"
    /\ \/ /\ sendCalls' = [sendCalls EXCEPT ![client] = @ + 1]
          /\ sentBytes' = [sentBytes EXCEPT ![client] = @ \o response]
          /\ pc' = "pause"
          /\ UNCHANGED <<err, failAt>>
       \/ /\ Raise("send")
          /\ UNCHANGED <<sendCalls, sentBytes>>
    /\ UNCHANGED <<crashCause, wifiVars, ip_address, connectCalls, listener,
                   socketCalls, netVars, calls, client, raw, dryness,
                   is_too_dry, haveReading, accepted, closeCalls, paused,
                   logged, result, response, cfgVars>>
    /\ events' = IF pc' = "pause"
                    THEN [events EXCEPT ![client] = Append(@, "send")]
                    ELSE events
    /\ sentRaw' = IF pc' = "pause"
                     THEN [sentRaw EXCEPT ![client] = raw]
                     ELSE sentRaw
    /\ UNCHANGED <<request, prevReq, acceptedThisCall>>

\* the success path without line 122
PauseSkipped ==
    /\ pc = "pause"
    /\ pc' = "close"
    /\ UNCHANGED <<err, failAt, paused>>
    /\ UNCHANGED <<crashCause, wifiVars, ip_address, connectCalls, listener,
                   socketCalls, netVars, calls, client, raw, dryness,
                   is_too_dry, haveReading, accepted, closeCalls, sendCalls,
                   logged, result, response, sentBytes, cfgVars>>
    /\ UNCHANGED events
    /\ UNCHANGED <<request, prevReq, sentRaw, acceptedThisCall>>

\* line 122: time.sleep(1)
Pause ==
    /\ pc = "pause"
    /\ \/ /\ paused' = [paused EXCEPT ![client] = TRUE]
          /\ pc' = "close"
          /\ UNCHANGED <<err, failAt>>
       \/ /\ Raise("pause")
          /\ UNCHANGED paused
    /\ UNCHANGED <<crashCause, wifiVars, ip_address, connectCalls, listener,
                   socketCalls, netVars, calls, client, raw, dryness,
                   is_too_dry, haveReading, accepted, closeCalls, sendCalls,
                   logged, result, response, sentBytes, cfgVars>>
    /\ events' = IF pc' = "close"
                    THEN [events EXCEPT ![client] = Append(@, "pause")]
                    ELSE events
    /\ UNCHANGED <<request, prevReq, sentRaw, acceptedThisCall>>

\* the success path returning without line 123
CloseSkipped ==
    /\ pc = "close"
    /\ pc' = "main_while"
    /\ UNCHANGED <<crashCause, wifiVars, ip_address, connectCalls, listener,
                   socketCalls, netVars, loopVars, cfgVars>>

\* line 123: client.close(), then main_loop returns
Close ==
    /\ pc = "close"
    /\ closeCalls' = [closeCalls EXCEPT ![client] = @ + 1]
    /\ connState' = [connState EXCEPT ![client] = "closed"]
    /\ pc' = "main_while"
    /\ UNCHANGED <<crashCause, wifiVars, ip_address, connectCalls, listener,
                   socketCalls, backlog, nextClient, calls, client, raw,
                   dryness, is_too_dry, haveReading, err, accepted,
                   sendCalls, paused, failAt, logged, result, response,
                   sentBytes, cfgVars>>
    /\ events' = [events EXCEPT ![client] = Append(@, "close")]
    /\ prevReq' = request
    /\ UNCHANGED <<request, sentRaw, acceptedThisCall>>

\* the handler without line 125
ExceptNoClose ==
    /\ pc = "except"
    /\ pc' = "log_err"
    /\ UNCHANGED <<crashCause, wifiVars, ip_address, connectCalls, listener,
                   socketCalls, netVars, loopVars, cfgVars>>

\* lines 124-125: the handler calls client.close().  When accept() raised,
\* client was never assigned: evaluating it raises NameError inside the
\* handler, which nothing catches, and main ends.
Except ==
    /\ pc = "except"
    /\ IF client = Unbound
          THEN /\ pc' = "crashed"
               /\ crashCause' = "main_loop"
               /\ UNCHANGED <<closeCalls, connState>>
          ELSE /\ closeCalls' = [closeCalls EXCEPT ![client] = @ + 1]
               /\ connState' = [connState EXCEPT ![client] = "closed"]
               /\ pc' = "log_err"
               /\ UNCHANGED crashCause
    /\ UNCHANGED <<wifiVars, ip_address, connectCalls, listener,
                   socketCalls, backlog, nextClient, calls, client, raw,
                   dryness, is_too_dry, haveReading, err, accepted,
                   sendCalls, paused, failAt, logged, result, response,
                   sentBytes, cfgVars>>
    /\ events' = IF client = Unbound
                    THEN events
                    ELSE [events EXCEPT ![client] = Append(@, "close")]
    /\ prevReq' = IF client # Unbound /\ sendCalls[client] > 0
                     THEN request
                     ELSE prevReq
    /\ UNCHANGED <<request, sentRaw, acceptedThisCall>>

\* the handler logging and then re-raising
LogErrReraise ==
    /\ pc = "log_err"
    /\ logged' = [logged EXCEPT ![client] = err]
    /\ pc' = "crashed"
    /\ crashCause' = "main_loop"
    /\ UNCHANGED <<wifiVars, ip_address, connectCalls, listener,
                   socketCalls, netVars, calls, client, raw, dryness,
                   is_too_dry, haveReading, err, accepted, closeCalls,
                   sendCalls, paused, failAt, result, response, sentBytes,
                   cfgVars>>
    /\ UNCHANGED histVars

\* line 126: print(f"Connection closed: {err}"), then main_loop returns
LogErr ==
    /\ pc = "log_err"
    /\ logged' = [logged EXCEPT ![client] = err]
    /\ pc' = "main_while"
    /\ UNCHANGED <<crashCause, wifiVars, ip_address, connectCalls, listener,
                   socketCalls, netVars, calls, client, raw, dryness,
                   is_too_dry, haveReading, err, accepted, closeCalls,
                   sendCalls, paused, failAt, result, response, sentBytes,
                   cfgVars>>
    /\ UNCHANGED histVars

(***************************************************************************)
(* main                                                                    *)
(***************************************************************************)
Next ==
    \/ WifiBegin
    \/ WifiWhile
    \/ WifiPoll1
    \/ WifiPoll2
    \/ WifiSleep
    \/ WifiFinal
    \/ WifiReturn
    \/ MakeSocket
    \/ Arrive
    \/ CallMainLoop
    \/ Accept
    \/ Unpack
    \/ ReadSensor
    \/ Dumps
    \/ Send
    \/ Pause
    \/ Close
    \/ Except
    \/ LogErr

Spec == Init /\ [][Next]_vars

(***************************************************************************)
(* get_soil_data on its own, for every sample of the 16-bit range          *)
(***************************************************************************)
InitSensor ==
    /\ pc = "sensor"
    /\ crashCause = "none"
    /\ InitWifi
    /\ ip_address = "none"
    /\ connectCalls = 0
    /\ listener = "none"
    /\ socketCalls = 0
    /\ InitNet
    /\ InitLoop
    /\ raw \in 0 .. U16_MAX
    /\ plant_name = PLANT_NAME
    /\ ensure_ascii = FALSE
    /\ dict_ordered = FALSE

\* lines 86-91 applied to the sample raw
SensorCall ==
    /\ pc = "sensor"
    /\ dryness' = get_soil_data(raw)[1]
    /\ is_too_dry' = get_soil_data(raw)[2]
    /\ haveReading' = TRUE
    /\ pc' = "sensor_done"
    /\ UNCHANGED <<crashCause, wifiVars, ip_address, connectCalls, listener,
                   socketCalls, netVars, calls, client, raw, err, accepted,
                   closeCalls, sendCalls, paused, failAt, logged, result,
                   response, sentBytes, cfgVars>>
    /\ UNCHANGED histVars

NextSensor == SensorCall

SpecSensor == InitSensor /\ [][NextSensor]_vars

(***************************************************************************)
(* One main_loop call that has accepted client 1, for every plant name of  *)
(* Names and both behaviours of json.dumps                                 *)
(***************************************************************************)
InitFraming ==
    /\ pc = "read"
    /\ crashCause = "none"
    /\ InitWifi
    /\ ip_address = "assigned"
    /\ connectCalls = 1
    /\ listener = "listening"
    /\ socketCalls = 1
    /\ backlog = <<>>
    /\ nextClient = 2
    /\ connState = [c \in Clients |-> IF c = 1 THEN "open" ELSE "new"]
    /\ calls = 1
    /\ client = 1
    /\ raw = 0
    /\ dryness = 0
    /\ is_too_dry = FALSE
    /\ haveReading = FALSE
    /\ err = "none"
    /\ accepted = <<1>>
    /\ closeCalls = [c \in Clients |-> 0]
    /\ sendCalls = [c \in Clients |-> 0]
    /\ paused = [c \in Clients |-> FALSE]
    /\ failAt = [c \in Clients |-> "none"]
    /\ logged = [c \in Clients |-> "none"]
    /\ result = <<>>
    /\ response = <<>>
    /\ sentBytes = [c \in Clients |-> <<>>]
    /\ request \in Requests
    /\ prevReq = "none"
    /\ sentRaw = [c \in Clients |-> NoSample]
    /\ events = [c \in Clients |-> IF c = 1 THEN <<"accept">> ELSE <<>>]
    /\ acceptedThisCall = TRUE
    /\ plant_name \in Names
    /\ ensure_ascii \in BOOLEAN
    /\ dict_ordered \in BOOLEAN

NextFraming ==
    \/ ReadSensor
    \/ Dumps
    \/ Send

SpecFraming == InitFraming /\ [][NextFraming]_vars

(***************************************************************************)
(* Reading a response back                                                 *)
(***************************************************************************)
IsDigit(b) == b >= 48 /\ b <= 57

\* the decimal number that starts at bytes[i]
RECURSIVE ParseInt(_, _, _)
ParseInt(bytes, i, acc) ==
    IF i <= Len(bytes) /\ IsDigit(bytes[i])
       THEN ParseInt(bytes, i + 1, acc * 10 + (bytes[i] - 48))
       ELSE acc

\* the value of the Content-Length header of a response
HeaderContentLength(bytes) ==
    ParseInt(bytes, Len(StatusLine) + Len(ContentLengthName) + 1, 0)

(***************************************************************************)
(* Properties                                                              *)
(***************************************************************************)
TypeOK ==
    /\ max_wait \in 0 .. MAX_WIFI_CONNECTION_ATTEMPTS
    /\ client \in {Unbound} \cup Clients
    /\ Len(backlog) <= BACKLOG

\* the clients accept() has returned so far
AcceptedSet == {accepted[i] : i \in 1 .. Len(accepted)}

\* no main_loop call is between its accept() and its return
BetweenCalls == pc \in {"main_while", "accept", "crashed"}

\* C1: main_loop never raises: whichever step fails, accept() included, the
\* failure is caught and main_loop returns, so main is never ended by an
\* exception that came out of main_loop.
C1_MainLoopNeverRaises == crashCause # "main_loop"

\* C2: when a main_loop call has ended, on whatever path, close() has been
\* invoked on every connection accept() returned.
C2_GuaranteedRelease ==
    BetweenCalls =>
        \A c \in AcceptedSet : closeCalls[c] >= 1 /\ connState[c] = "closed"

\* a call that failed after its send and a call that succeeded have both
\* ended with their connection closed
C2_Witness ==
    /\ pc = "main_while"
    /\ \E c, d \in AcceptedSet :
          /\ failAt[c] = "pause"
          /\ closeCalls[c] = 1
          /\ failAt[d] = "none"
          /\ closeCalls[d] = 1

\* the handling of client c is over
Handled(c) == c \in AcceptedSet /\ (BetweenCalls \/ client # c)

\* C3: a connection whose send failed has its error logged and is closed,
\* the handler then returns to main, whose loop calls main_loop again and
\* reaches the next accept(); the failure never ends main.
C3_FailureIsolation ==
    /\ [](\A c \in Clients :
             (failAt[c] = "send" /\ Handled(c)) =>
                 /\ logged[c] = "send"
                 /\ connState[c] = "closed"
                 /\ sendCalls[c] = 0)
    /\ [][(pc = "except" /\ err = "send" /\ pc' # pc) =>
             (pc' = "log_err" /\ crashCause' = "none")]_vars
    /\ [][(pc = "log_err" /\ err = "send" /\ pc' # pc) =>
             (pc' = "main_while" /\ crashCause' = "none")]_vars
    /\ [][(pc = "main_while" /\ pc' # pc) =>
             (pc' = "accept" /\ crashCause' = "none")]_vars

\* the connection accepted right after one whose send failed has been sent
\* a whole response and closed
C3_Witness ==
    /\ pc = "main_while"
    /\ \E i \in 1 .. Len(accepted) - 1 :
          /\ failAt[accepted[i]] = "send"
          /\ logged[accepted[i]] = "send"
          /\ failAt[accepted[i + 1]] = "none"
          /\ sendCalls[accepted[i + 1]] = 1
          /\ sentBytes[accepted[i + 1]] = response
          /\ connState[accepted[i + 1]] = "closed"

\* C4: at most one connection is open at any time; connections are accepted
\* in arrival order; and whenever accept() is about to be invoked every
\* connection accepted before is closed, after its send and pause unless one
\* of its steps failed.
C4_OneAtATime ==
    /\ Cardinality({c \in Clients : connState[c] = "open"}) <= 1
    /\ \A i \in 1 .. Len(accepted) : accepted[i] = i
    /\ pc \in {"main_while", "accept"} =>
          \A c \in AcceptedSet :
             /\ connState[c] = "closed"
             /\ closeCalls[c] >= 1
             /\ failAt[c] = "none" => (sendCalls[c] = 1 /\ paused[c])

\* blocked in accept() for the third connection after a success and a failure
C4_Witness ==
    /\ pc = "accept"
    /\ Len(accepted) = 2
    /\ failAt[1] = "none"
    /\ paused[1]
    /\ failAt[2] = "read"
    /\ connState[2] = "closed"
    /\ backlog # <<>>

\* connect_to_wifi raised after every status read returned "connecting"
RaisedAllConnecting ==
    /\ pc = "crashed"
    /\ crashCause = "connect_to_wifi"
    /\ allConnecting

\* C5 as stated: when every poll reports "still connecting", connect_to_wifi
\* raises after exactly MAX_WIFI_CONNECTION_ATTEMPTS polls of the status.
C5_ExactlyMaxPolls ==
    RaisedAllConnecting => statusCalls = MAX_WIFI_CONNECTION_ATTEMPTS

\* C5 amended: when every poll reports "still connecting", connect_to_wifi
\* raises after exactly MAX_WIFI_CONNECTION_ATTEMPTS iterations of the loop
\* and as many sleeps; the status is read twice in each iteration and once
\* more after the loop.
C5_ExactlyMaxIterations ==
    RaisedAllConnecting =>
        /\ exhausted
        /\ iterations = MAX_WIFI_CONNECTION_ATTEMPTS
        /\ sleeps = MAX_WIFI_CONNECTION_ATTEMPTS
        /\ statusCalls = 2 * MAX_WIFI_CONNECTION_ATTEMPTS + 1

C5_Witness == RaisedAllConnecting /\ iterations = MAX_WIFI_CONNECTION_ATTEMPTS

\* connect_to_wifi has returned (its frame is still observed)
WifiReturned == pc \in {"wifi_return", "wifi_done"}

WifiRaised == pc = "crashed" /\ crashCause = "connect_to_wifi"

\* C6 as stated: an address is returned only when the status after the loop
\* is 3; when the loop used up every retry without a poll inside it seeing
\* 3, or when a failure status was reported, connect_to_wifi raises.
C6_SuccessCondition ==
    /\ WifiReturned => finalStatus = <<STAT_GOT_IP>>
    /\ (finalStatus # <<>> /\ exhausted /\ ~loopJoined) => WifiRaised
    /\ (finalStatus # <<>> /\ failSeen) => WifiRaised

\* C6 amended: connect_to_wifi returns an address exactly when the status
\* read after the loop is 3 and raises exactly when that read is anything
\* else, whatever the polls inside the loop reported.
C6_FinalReadDecides ==
    /\ WifiReturned => (finalStatus = <<STAT_GOT_IP>> /\ crashCause = "none")
    /\ WifiRaised => (finalStatus # <<STAT_GOT_IP>> /\ ip_address = "none")
    /\ (finalStatus # <<>> /\ finalStatus # <<STAT_GOT_IP>>) => WifiRaised
    /\ ip_address # "none" => finalStatus = <<STAT_GOT_IP>>

\* an address is returned although the loop used up every retry and no poll
\* inside it saw 3
C6_Witness ==
    /\ pc = "wifi_done"
    /\ ip_address = "assigned"
    /\ exhausted
    /\ ~loopJoined
    /\ iterations = MAX_WIFI_CONNECTION_ATTEMPTS

\* C7: connect_to_wifi runs once and succeeds before make_socket runs once
\* and succeeds before the first accept(); a failure of connect_to_wifi
\* leaves no socket, a failure of make_socket no main_loop call; neither
\* step runs twice.
C7_StartupOrder ==
    /\ connectCalls <= 1
    /\ socketCalls <= 1
    /\ socketCalls = 1 =>
          (connectCalls = 1 /\ ip_address = "assigned"
           /\ finalStatus = <<STAT_GOT_IP>>)
    /\ listener # "none" => socketCalls = 1
    /\ (calls > 0 \/ accepted # <<>> \/ backlog # <<>>) =>
          (socketCalls = 1 /\ listener = "listening"
           /\ crashCause # "make_socket")
    /\ crashCause = "connect_to_wifi" =>
          (listener = "none" /\ socketCalls = 0 /\ calls = 0
           /\ accepted = <<>>)
    /\ crashCause = "make_socket" =>
          (listener # "listening" /\ calls = 0 /\ accepted = <<>>)

\* two main_loop calls have been made after both startup steps ran once
C7_Witness ==
    /\ calls = 2
    /\ connectCalls = 1
    /\ socketCalls = 1
    /\ Len(accepted) = 2

\* C8: the number in the Content-Length header is the number of bytes of
\* the UTF-8 encoding of the JSON body.
C8_ContentLengthIsByteLength ==
    pc = "send" => HeaderContentLength(response) = Len(Encode(result))

\* C9: for every sample the percentage is the tenth nearest to
\* raw / 65535 * 100 and lies in 0.0 .. 100.0; sample 0 gives 0.0 and is not
\* too dry for any positive threshold, sample 65535 gives 100.0 and is too
\* dry for any threshold below 100.
C9_PercentRange ==
    pc = "sensor_done" =>
        /\ dryness \in 0 .. 1000
        /\ 2 * (dryness * U16_MAX - raw * 1000) <= U16_MAX
        /\ 2 * (raw * 1000 - dryness * U16_MAX) <= U16_MAX
        /\ raw = 0 =>
              /\ dryness = 0
              /\ ~is_too_dry
              /\ \A th \in 1 .. 1000 : ~TooDryAt(dryness, th)
        /\ raw = U16_MAX =>
              /\ dryness = 1000
              /\ is_too_dry
              /\ \A th \in 0 .. 999 : TooDryAt(dryness, th)

C9_Witness ==
    /\ pc = "sensor_done"
    /\ raw = U16_MAX
    /\ dryness = 1000
    /\ is_too_dry

\* C10: too_dry is true exactly when the rounded percentage is strictly
\* above 60.0: a rounded 60.0 is not too dry (sample 39321), also when the
\* unrounded ratio is above 60.
C10_StrictOnRounded ==
    pc = "sensor_done" =>
        /\ is_too_dry <=> dryness > MAX_DRYNESS_PERCENTAGE
        /\ raw = 39321 => (dryness = 600 /\ ~is_too_dry)
        /\ dryness = MAX_DRYNESS_PERCENTAGE => ~is_too_dry

\* a sample whose ratio is above 60 and whose rounded percentage is 60.0
C10_Witness ==
    /\ pc = "sensor_done"
    /\ raw * 1000 > MAX_DRYNESS_PERCENTAGE * U16_MAX
    /\ dryness = MAX_DRYNESS_PERCENTAGE
    /\ ~is_too_dry

\* the body with the four keys in the order of the dict literal
ExpectedBody(name, dry, too_dry, ascii) ==
    KeyPlant \o JsonString(name, ascii)
    \o KeyDryness \o FloatStr(dry)
    \o KeyMax \o FloatStr(MAX_DRYNESS_PERCENTAGE)
    \o KeyTooDry \o (IF too_dry THEN TxtTrue ELSE TxtFalse)
    \o <<125>>

\* C11: the body is the JSON object with the keys plant, dryness_percent,
\* max_allowable_dryness, is_plant_too_dry in this order, its values those
\* of the one sensor read of the request: the flag is (percent > threshold),
\* sample 20000 gives 30.5 and false, sample 50000 gives 76.3 and true.
C11_BodyShape ==
    pc = "send" =>
        /\ result = ExpectedBody(plant_name, dryness, is_too_dry,
                                 ensure_ascii)
        /\ is_too_dry = (dryness > MAX_DRYNESS_PERCENTAGE)
        /\ raw = 20000 => (dryness = 305 /\ ~is_too_dry)
        /\ raw = 50000 => (dryness = 763 /\ is_too_dry)

\* the poll loop is running or connect_to_wifi has just ended
InWifi ==
    \/ pc \in {"wifi_while", "wifi_poll1", "wifi_poll2", "wifi_sleep",
               "wifi_final", "wifi_return", "wifi_done"}
    \/ WifiRaised

\* the poll loop has ended
LoopEnded == pc \in {"wifi_final", "wifi_return", "wifi_done"} \/ WifiRaised

IsDefinite(s) == s < 0 \/ s >= STAT_GOT_IP

\* C15 as stated: once a status read inside the loop returns a definite
\* result (negative, or 3 and above) the loop is left with no further sleep;
\* the sleeps number the iterations that saw "still connecting", at most
\* MAX_WIFI_CONNECTION_ATTEMPTS, and none when the first read is definite.
C15_EarlyExit ==
    /\ pc = "wifi_sleep" => (~loopJoined /\ ~failSeen)
    /\ sleeps <= MAX_WIFI_CONNECTION_ATTEMPTS
    /\ LoopEnded => sleeps = iterations - (IF broke THEN 1 ELSE 0)
    /\ (LoopEnded /\ IsDefinite(firstReads[1])) => sleeps = 0

\* C15 amended: an iteration leaves the loop, with no sleep and no wait
\* message, exactly when its first status read is negative or its second
\* read, made when the first is not negative, is 3 or above; the sleeps
\* number the iterations that did not break, at most
\* MAX_WIFI_CONNECTION_ATTEMPTS, and none when the first read is negative or
\* the second read is 3 or above.
C15_EarlyExitOnActedRead ==
    /\ [](sleeps <= MAX_WIFI_CONNECTION_ATTEMPTS)
    /\ [](LoopEnded => sleeps = iterations - (IF broke THEN 1 ELSE 0))
    /\ []((LoopEnded /\ firstReads[1] < 0) => sleeps = 0)
    /\ []((LoopEnded /\ Len(firstReads) = 2 /\ firstReads[1] >= 0
           /\ firstReads[2] >= STAT_GOT_IP /\ iterations = 1) => sleeps = 0)
    /\ [][(pc = "wifi_poll1" /\ pc' # pc) =>
             /\ sleeps' = sleeps
             /\ pc' = IF lastStatus'[1] < 0 THEN "wifi_final"
                                             ELSE "wifi_poll2"]_vars
    /\ [][(pc = "wifi_poll2" /\ pc' # pc) =>
             /\ sleeps' = sleeps
             /\ pc' = IF lastStatus'[1] >= STAT_GOT_IP THEN "wifi_final"
                                                        ELSE "wifi_sleep"]_vars
    /\ [][(LoopEnded /\ InWifi') => sleeps' = sleeps]_vars

\* the loop ended at the second read of its third iteration, after two sleeps
C15_Witness ==
    /\ pc = "wifi_final"
    /\ broke
    /\ iterations = 3
    /\ sleeps = 2
    /\ lastStatus = <<STAT_GOT_IP>>

\* the response of the current call has been handed to send()
SentThisCall == pc \in {"pause", "close"}

\* C12: the response does not depend on what the client wrote: two
\* connections whose responses were built from the same sample were sent the
\* same bytes, whatever their requests, in particular when the requests of
\* two successive responses differ.
C12_RequestIgnored ==
    SentThisCall =>
        \A d \in Clients :
            (d # client /\ sendCalls[d] = 1
             /\ sentRaw[d] = sentRaw[client]) =>
                sentBytes[d] = sentBytes[client]

\* two successive responses to different requests and the same sample
C12_Witness ==
    /\ pc = "pause"
    /\ prevReq # "none"
    /\ prevReq # request
    /\ client > 1
    /\ sendCalls[client - 1] = 1
    /\ sentRaw[client - 1] = sentRaw[client]
    /\ sentBytes[client - 1] = sentBytes[client]

\* C13: once connect_to_wifi and make_socket have succeeded main never
\* ends: whatever arrives and whichever request step fails, it comes back to
\* accept().
C13_NeverTerminates == listener = "listening" => pc # "crashed"

\* the calls made for a connection when no step fails
FullSequence == <<"accept", "read", "send", "pause", "close">>

\* s is FullSequence, or a start of it, or a start of it ended by the close
\* of the handler
InOrder(s) ==
    \E n \in 0 .. Len(FullSequence) :
        \/ s = SubSeq(FullSequence, 1, n)
        \/ n < Len(FullSequence) - 1 /\ n >= 1
           /\ s = SubSeq(FullSequence, 1, n) \o <<"close">>

\* C14: a successful call makes one accept, then one sensor read, then one
\* send of the whole response, then the pause, then the close; the reading
\* is taken in the call that uses it and only after its accept; nothing is
\* sent on a closed connection.
C14_StepOrder ==
    /\ [](\A c \in Clients :
             /\ InOrder(events[c])
             /\ (Handled(c) /\ failAt[c] = "none") =>
                   (events[c] = FullSequence /\ sendCalls[c] = 1
                    /\ paused[c]))
    /\ [](haveReading => (acceptedThisCall /\ client # Unbound))
    /\ [](pc \in {"main_while", "accept", "unpack", "read"} =>
             (pc = "main_while" \/ ~haveReading))
    /\ [](SentThisCall =>
             /\ haveReading
             /\ dryness = RoundTenths(raw)
             /\ sentRaw[client] = raw
             /\ response # <<>>
             /\ sentBytes[client] = response)
    /\ [][\A c \in Clients :
             connState[c] = "closed" =>
                (sentBytes'[c] = sentBytes[c]
                 /\ sendCalls'[c] = sendCalls[c])]_vars

\* a call that ran through all five steps has ended
C14_Witness ==
    /\ pc = "main_while"
    /\ events[1] = FullSequence
    /\ connState[1] = "closed"
    /\ sentBytes[1] # <<>>

\* C16: close() is called once for every accepted connection, at the end of
\* the success path or in the handler, never twice; the call that closes a
\* connection is the call that accepted it.
C16_ClosedOnce ==
    /\ [](\A c \in Clients :
             /\ closeCalls[c] <= 1
             /\ Handled(c) => closeCalls[c] = 1)
    /\ [][\A c \in Clients :
             closeCalls'[c] # closeCalls[c] =>
                /\ closeCalls[c] = 0
                /\ acceptedThisCall
                /\ accepted # <<>>
                /\ c = accepted[Len(accepted)]]_vars

\* the handler closed connection 1 once; the accept of the next call raised
\* and connection 1 was not closed again
C16_Witness ==
    /\ pc = "crashed"
    /\ crashCause = "main_loop"
    /\ accepted = <<1>>
    /\ failAt[1] = "send"
    /\ closeCalls[1] = 1

\* the index of the first line feed of the first blank line
RECURSIVE BlankLine(_, _)
BlankLine(bytes, k) ==
    IF k >= Len(bytes) THEN Len(bytes)
    ELSE IF bytes[k] = 10 /\ bytes[k + 1] = 10 THEN k
    ELSE BlankLine(bytes, k + 1)

\* the bytes after the blank line
AfterHeader(bytes) == SubSeq(bytes, BlankLine(bytes, 1) + 2, Len(bytes))

\* C17: after the blank line come the JSON text and exactly one newline, one
\* byte more than the length Content-Length states; the header block is the
\* status line, Content-Length and Content-Type, in this order, ended by
\* bare line feeds.
C17_BodyThenNewline ==
    pc \in {"send", "pause", "close"} =>
        LET k      == BlankLine(response, 1)
            header == SubSeq(response, 1, k + 1)
            after  == SubSeq(response, k + 2, Len(response))
            stated == HeaderContentLength(response)
        IN  /\ after = Encode(result) \o <<10>>
            /\ Len(after) = stated + 1
            /\ stated = StrLen(result)
            /\ header = StatusLine \o ContentLengthName \o IntStr(stated)
                        \o <<10>> \o ContentTypeLine
            /\ \A i \in 1 .. Len(header) : header[i] # 13

C17_Witness ==
    /\ pc = "pause"
    /\ sentBytes[client] = response
    /\ AfterHeader(response) = Encode(result) \o <<10>>
    /\ HeaderContentLength(response) = Len(result)

====
